---- MODULE Spec2Model ----
(***************************************************************************)
(* Model of the damped-oscillator validation suite:                        *)
(*   src/scripts/test/test_energia.py                 (TestConservacionEnergia, test_rendimiento) *)
(*   src/scripts/test/scripts/test/test_validacion.py (physical / numerical checks, report)      *)
(*   src/src/graficas_oscilador.py                    (cargar_datos, calcular_energia_disipada,  *)
(*                                                     generar_reporte_energia)                  *)
(*                                                                         *)
(* Numbers.  A floating-point value is modelled as an exact number on a    *)
(* two-level grid: [c, f] stands for  c * 0.1 + f * 1e-11  (c tenths plus  *)
(* f "fine" units), with |f| far below one tenth, so that order and        *)
(* subtraction are exact and lexicographic.  The thresholds of the code    *)
(* are points of this grid: 1e-10 = 10 fine units, 0.1 = 1 tenth,          *)
(* 1.0 = 10 tenths, 2.0 = 20 tenths.  Rounding of binary floating point is *)
(* not modelled.  Products (v**2, the trapezoid rule) are computed on the  *)
(* tenths component; the time and velocity columns of every enumerated     *)
(* input are whole tenths.                                                 *)
(*                                                                         *)
(* Each function of the source is an operator computed as the code         *)
(* computes it; each test function is one action that runs it whole.       *)
(* Module-level statements of the three files are not part of any          *)
(* operation modelled here.                                                *)
(***************************************************************************)
EXTENDS Integers, Sequences, FiniteSets, TLC

(***************************************************************************)
(* Numbers                                                                 *)
(***************************************************************************)
Num(c, f) == [s |-> "fin", c |-> c, f |-> f]

NaN == [s |-> "nan", c |-> 0, f |-> 0]

PInf == [s |-> "inf", c |-> 0, f |-> 0]

NInf == [s |-> "ninf", c |-> 0, f |-> 0]

Cero == Num(0, 0)

\* np.isnan / np.isinf on one element
isnan(a) == a.s = "nan"

isinf(a) == a.s \in {"inf", "ninf"}

\* a < b on finite values; any comparison with nan is False, as in IEEE 754
Lt(a, b) ==
    CASE isnan(a) \/ isnan(b) -> FALSE
      [] a.s = "ninf" -> b.s # "ninf"
      [] a.s = "inf" -> FALSE
      [] b.s = "inf" -> TRUE
      [] b.s = "ninf" -> FALSE
      [] OTHER -> a.c < b.c \/ (a.c = b.c /\ a.f < b.f)

\* a >= b
Ge(a, b) ==
    CASE isnan(a) \/ isnan(b) -> FALSE
      [] OTHER -> ~Lt(a, b)

\* a - b (finite operands)
Sub(a, b) == Num(a.c - b.c, a.f - b.f)

\* abs(a)
Abs(a) ==
    CASE isnan(a) -> NaN
      [] isinf(a) -> PInf
      [] OTHER -> IF Lt(a, Cero) THEN Num(0 - a.c, 0 - a.f) ELSE a

\* np.sign(a): -1, 0 or 1 (finite operands)
Sign(a) == IF Lt(a, Cero) THEN -1 ELSE IF Lt(Cero, a) THEN 1 ELSE 0

\* the tenths component of a whole-tenths value
Tenths(a) == a.c

(***************************************************************************)
(* Configuration constants of the source                                   *)
(***************************************************************************)
\* VALORES_B = [0.5, 2.0, 3.0], in hundredths
VALORES_B == <<50, 200, 300>>

\* ENERGIA_TEORICA = 2.0
ENERGIA_TEORICA == Num(20, 0)

\* the literal 1e-10 (initial-condition tolerance, noise floor)
Eps == Num(0, 10)

\* the literal 1.0 (initial position)
Uno == Num(10, 0)

\* the literal 0.1 (asymptotic bound on |x| and |v|)
Decimo == Num(1, 0)

(***************************************************************************)
(* File names: f"resultados_b{b:.2f}.dat"                                  *)
(***************************************************************************)
Digito(d) ==
    CASE d = 0 -> "0" [] d = 1 -> "1" [] d = 2 -> "2" [] d = 3 -> "3"
      [] d = 4 -> "4" [] d = 5 -> "5" [] d = 6 -> "6" [] d = 7 -> "7"
      [] d = 8 -> "8" [] d = 9 -> "9"

\* "{b:.2f}" for 0 <= b < 10, b in hundredths
Fmt2f(b) ==
    Digito(b \div 100) \o "." \o Digito((b % 100) \div 10) \o Digito(b % 10)

Nombre(b) == "resultados_b" \o Fmt2f(b) \o ".dat"

NOMBRES == {Nombre(VALORES_B[i]) : i \in 1..Len(VALORES_B)}

(***************************************************************************)
(* Files.  A file is a sequence of lines; a line is a comment (it starts   *)
(* with '#') or a sequence of whitespace-separated numeric fields (none:   *)
(* a blank line).  The file system maps each name to a file or to nothing. *)
(***************************************************************************)
Comentario == [com |-> TRUE, campos |-> <<>>]

Fila(campos) == [com |-> FALSE, campos |-> campos]

Archivo(lineas) == [existe |-> TRUE, lineas |-> lineas]

Ausente == [existe |-> FALSE, lineas |-> <<>>]

(***************************************************************************)
(* Loading                                                                 *)
(***************************************************************************)
\* [line for line in f if not line.startswith('#')]
SinComentarios(lineas) == SelectSeq(lineas, LAMBDA l : ~l.com)

\* np.loadtxt(lines): blank lines are ignored; rows with different numbers
\* of columns raise ValueError; no row at all gives an empty 1-D array; one
\* row or one column gives a 1-D array, anything else a 2-D array.
loadtxt(lineas) ==
    LET filas == SelectSeq(lineas, LAMBDA l : Len(l.campos) > 0)
        n == Len(filas)
        k == IF n = 0 THEN 0 ELSE Len(filas[1].campos)
    IN  IF \E i \in 1..n : Len(filas[i].campos) # k
        THEN [ok |-> FALSE, ndim |-> 0, ncol |-> 0, filas |-> <<>>]
        ELSE [ok |-> TRUE,
              ndim |-> IF n = 0 THEN 1
                       ELSE 2 - (IF n = 1 THEN 1 ELSE 0) - (IF k = 1 THEN 1 ELSE 0),
              ncol |-> k,
              filas |-> filas]

\* data[:, j] of a 2-D array (j counted from 1)
Columna(filas, j) == [i \in 1..Len(filas) |-> filas[i].campos[j]]

\* the columns a loader hands out; a column the array does not have is empty
Datos(st, filas) ==
    LET col(j) == IF st = "ok" /\ Len(filas[1].campos) >= j
                  THEN Columna(filas, j) ELSE <<>>
    IN  [st |-> st, t |-> col(1), x |-> col(2), v |-> col(3), E |-> col(4)]

\* the inline loading of the checks: loadtxt, then data[:, j] up to column
\* ncols; a 1-D array or fewer than ncols columns raises IndexError, further
\* columns are accepted and ignored
CargarLineas(lineas, ncols) ==
    LET d == loadtxt(SinComentarios(lineas))
    IN  IF d.ok /\ d.ndim = 2 /\ d.ncol >= ncols
        THEN Datos("ok", d.filas)
        ELSE Datos("error", <<>>)

\* TestConservacionEnergia.cargar_datos(b): pytest.skip when the file is
\* missing ("skip"), else the columns ("ok") or an exception ("error")
TestConservacionEnergia_cargar_datos(b, sys) ==
    IF ~sys[Nombre(b)].existe
    THEN Datos("skip", <<>>)
    ELSE CargarLineas(sys[Nombre(b)].lineas, 4)

\* graficas_oscilador.cargar_datos(nombre_archivo): every failure (missing
\* file, loadtxt error, not exactly 4 columns, 1-D array) ends in sys.exit(1)
cargar_datos(nombre_archivo, sys) ==
    IF ~sys[nombre_archivo].existe
    THEN Datos("exit", <<>>)
    ELSE LET d == loadtxt(SinComentarios(sys[nombre_archivo].lineas))
         IN  IF d.ok /\ d.ndim = 2 /\ d.ncol = 4
             THEN Datos("ok", d.filas)
             ELSE Datos("exit", <<>>)

(***************************************************************************)
(* The checks on one trajectory (the loop bodies of the test functions)    *)
(***************************************************************************)
\* np.max of a non-empty sequence
RECURSIVE MaxDesde(_, _)
MaxDesde(a, i) ==
    IF i = Len(a) THEN a[i]
    ELSE LET m == MaxDesde(a, i + 1)
         IN  IF isnan(a[i]) \/ isnan(m) THEN NaN
             ELSE IF Lt(a[i], m) THEN m ELSE a[i]

npmax(a) == MaxDesde(a, 1)

\* a[k:] with k counted from 0, as in Python
Desde(a, k) == SubSeq(a, k + 1, Len(a))

\* np.abs, elementwise
npabs(a) == [i \in 1..Len(a) |-> Abs(a[i])]

\* test_condiciones_iniciales, the three assertions for one coefficient
CondicionesInicialesOK(x, v, E) ==
    /\ Lt(Abs(Sub(x[1], Uno)), Eps)
    /\ Lt(Abs(Sub(v[1], Cero)), Eps)
    /\ Lt(Abs(Sub(E[1], ENERGIA_TEORICA)), Eps)

\* np.diff(E)
npdiff(E) == [i \in 1..(Len(E) - 1) |-> Sub(E[i + 1], E[i])]

\* a variant of the filter without the noise floor: diferencias > 0
incrementosEstrictos(E) == SelectSeq(npdiff(E), LAMBDA d : Lt(Cero, d))

\* test_energia_decrece: incrementos = diferencias[diferencias > 1e-10];
\* assert len(incrementos) == 0
incrementos(E) == SelectSeq(npdiff(E), LAMBDA d : Lt(Eps, d))

EnergiaDecreceOK(E) == Len(incrementos(E)) = 0

\* 0.05 * ENERGIA_TEORICA
UmbralEnergiaFinal == Num((5 * ENERGIA_TEORICA.c) \div 100, 0)

\* punto_cuarto = len(E) // 4
punto_cuarto(a) == Len(a) \div 4

\* test_convergencia_temporal: np.max(E[punto_cuarto:]) < 0.05 * E0
ConvergenciaTemporalOK(E) ==
    Lt(npmax(Desde(E, punto_cuarto(E))), UmbralEnergiaFinal)

\* test_comportamiento_asintotico: max|x[len(x)//4:]| < 0.1 and the same for v
ComportamientoAsintoticoOK(x, v) ==
    /\ Lt(npmax(npabs(Desde(x, punto_cuarto(x)))), Decimo)
    /\ Lt(npmax(npabs(Desde(v, punto_cuarto(x)))), Decimo)

\* a variant without the tolerance on the energy: E >= 0
EstabilidadSinTolerancia(x, v, E) ==
    /\ ~\E i \in 1..Len(x) : isnan(x[i]) \/ isinf(x[i])
    /\ ~\E i \in 1..Len(v) : isnan(v[i]) \/ isinf(v[i])
    /\ \A i \in 1..Len(E) : Ge(E[i], Cero)

\* test_estabilidad_numerica: no nan, no inf in x and v; E >= -1e-10
EstabilidadNumericaOK(x, v, E) ==
    /\ ~\E i \in 1..Len(x) : isnan(x[i])
    /\ ~\E i \in 1..Len(v) : isnan(v[i])
    /\ ~\E i \in 1..Len(x) : isinf(x[i])
    /\ ~\E i \in 1..Len(v) : isinf(v[i])
    /\ \A i \in 1..Len(E) : Ge(E[i], Num(0, 0 - Eps.f))

(***************************************************************************)
(* Dissipated energy.  With t and v in tenths, twice the trapezoid         *)
(* integral of v**2 over t is an integer number of thousandths; with b in  *)
(* hundredths, b * integral is an integer number of units of               *)
(* 1 / UnidadesPorJulio joule.                                             *)
(***************************************************************************)
UnidadesPorJulio == 2 * 1000 * 100

\* velocidad**2, elementwise (hundredths)
Cuadrado(v) == [i \in 1..Len(v) |-> Tenths(v[i]) * Tenths(v[i])]

\* a variant of the quadrature: the left rectangle rule,
\* sum(diff(x) * y[:-1]), doubled like TrapzDoble
RECURSIVE RectanguloDoble(_, _, _)
RectanguloDoble(y, x, i) ==
    IF i >= Len(x) THEN 0
    ELSE (Tenths(x[i + 1]) - Tenths(x[i])) * 2 * y[i]
         + RectanguloDoble(y, x, i + 1)

\* np.trapz(y, x) = sum(diff(x) * (y[1:] + y[:-1]) / 2); this is the sum
\* before the division by 2
RECURSIVE TrapzDoble(_, _, _)
TrapzDoble(y, x, i) ==
    IF i >= Len(x) THEN 0
    ELSE (Tenths(x[i + 1]) - Tenths(x[i])) * (y[i + 1] + y[i])
         + TrapzDoble(y, x, i + 1)

\* calcular_energia_disipada(tiempo, velocidad, b): b * np.trapz(v**2, t),
\* in units of 1 / UnidadesPorJulio
calcular_energia_disipada(tiempo, velocidad, b) ==
    b * TrapzDoble(Cuadrado(velocidad), tiempo, 1)

\* a joule value on the tenths grid, in units of 1 / UnidadesPorJulio
EnUnidades(e) == e.c * (UnidadesPorJulio \div 10)

AbsInt(n) == IF n < 0 THEN 0 - n ELSE n

\* p < q for fractions <<numerator, denominator>> with positive denominators
FracLt(p, q) == p[1] * q[2] < q[1] * p[2]

\* TOLERANCIA_ERROR = 0.01
TOLERANCIA_ERROR == <<1, 100>>

\* test_energia_disipada, for one coefficient:
\*   energia_disipada = b * np.trapz(v**2, t)
\*   error_relativo = abs(energia_disipada - E0) / E0;  assert error_relativo < 0.01
EnergiaDisipadaOK(t, v, b) ==
    LET integral_b == b * TrapzDoble(Cuadrado(v), t, 1)
        error_relativo == <<AbsInt(integral_b - EnUnidades(ENERGIA_TEORICA)),
                            EnUnidades(ENERGIA_TEORICA)>>
    IN  FracLt(error_relativo, TOLERANCIA_ERROR)

\* generar_reporte_energia, for one coefficient (energia_teorica = 2.0):
\*   error_absoluto = abs(energia_disipada - energia_teorica)
\*   error_relativo = (error_absoluto / energia_teorica) * 100
\*   "Excelente" if error_relativo < 1.0, "Muy bueno" if < 5.0, else "Aceptable"
evaluacion(t, v, b) ==
    LET energia_teorica == EnUnidades(Num(20, 0))
        energia_disipada == calcular_energia_disipada(t, v, b)
        error_absoluto == AbsInt(energia_disipada - energia_teorica)
        error_relativo == <<error_absoluto * 100, energia_teorica>>
    IN  IF FracLt(error_relativo, <<1, 1>>) THEN "Excelente"
        ELSE IF FracLt(error_relativo, <<5, 1>>) THEN "Muy bueno"
        ELSE "Aceptable"

(***************************************************************************)
(* Regime identification (test_identificacion_regimenes, loop body)        *)
(***************************************************************************)
\* signos = np.sign(x); cambios_signo = np.where(np.diff(signos))[0]
cambios_signo(x) == {i \in 1..(Len(x) - 1) : Sign(x[i + 1]) - Sign(x[i]) # 0}

\* a variant that takes every crossing for an oscillation
num_cruces(x) == Cardinality(cambios_signo(x))

\* num_oscilaciones = len(cambios_signo) // 2
num_oscilaciones(x) == Cardinality(cambios_signo(x)) \div 2

\* the labels are those of the source, without the accents
regimen(x) ==
    IF num_oscilaciones(x) > 3 THEN "Subamortiguado"
    ELSE IF num_oscilaciones(x) > 0 THEN "Casi critico"
    ELSE "Sobreamortiguado/Critico"

(***************************************************************************)
(* Test functions.  The outcome of running one is a record:                *)
(*   st        "passed", "failed" (AssertionError), "skipped" (pytest.skip *)
(*             raised Skipped), "error" (any other exception)              *)
(*   evaluados the coefficients whose assertions were evaluated            *)
(*   fallos    the coefficients for which a failure was raised             *)
(*   salida    what the function printed, in order                         *)
(***************************************************************************)
R(st, evaluados, fallos, salida) ==
    [st |-> st, evaluados |-> evaluados, fallos |-> fallos, salida |-> salida]

SinEjecutar == R("none", {}, {}, <<>>)

\* a variant of the existence loop that steps over a missing file, as the
\* sweeps of test_validacion.py do
RECURSIVE ArchivosExistenTolerante(_, _, _, _)
ArchivosExistenTolerante(orden, sys, i, ev) ==
    IF i > Len(orden) THEN R("passed", ev, {}, <<>>)
    ELSE ArchivosExistenTolerante(orden, sys, i + 1, ev \cup {orden[i]})

\* test_archivos_existen: for b in VALORES_B: assert os.path.exists(filename)
RECURSIVE ArchivosExistenDesde(_, _, _, _)
ArchivosExistenDesde(orden, sys, i, ev) ==
    IF i > Len(orden) THEN R("passed", ev, {}, <<>>)
    ELSE IF ~sys[Nombre(orden[i])].existe
         THEN R("failed", ev \cup {orden[i]}, {orden[i]}, <<>>)
         ELSE ArchivosExistenDesde(orden, sys, i + 1, ev \cup {orden[i]})

test_archivos_existen(sys) == ArchivosExistenDesde(VALORES_B, sys, 1, {})

\* the assertions of one TestConservacionEnergia check on the loaded columns
AfirmacionesEnergia(chk, d, b) ==
    CASE chk = "test_condiciones_iniciales" -> CondicionesInicialesOK(d.x, d.v, d.E)
      [] chk = "test_energia_disipada" -> EnergiaDisipadaOK(d.t, d.v, b)
      [] chk = "test_energia_decrece" -> EnergiaDecreceOK(d.E)
      [] chk = "test_convergencia_temporal" -> ConvergenciaTemporalOK(d.E)

\* for b in self.VALORES_B: t, x, v, E = self.cargar_datos(b); assert ...
\* pytest.skip inside cargar_datos and a failing assert both leave the loop
RECURSIVE BarridoEnergia(_, _, _, _, _)
BarridoEnergia(chk, orden, sys, i, ev) ==
    IF i > Len(orden) THEN R("passed", ev, {}, <<>>)
    ELSE LET b == orden[i]
             d == TestConservacionEnergia_cargar_datos(b, sys)
         IN  IF d.st = "skip" THEN R("skipped", ev, {}, <<>>)
             ELSE IF d.st = "error" THEN R("error", ev, {}, <<>>)
             ELSE IF ~AfirmacionesEnergia(chk, d, b)
                  THEN R("failed", ev \cup {b}, {b}, <<>>)
                  ELSE BarridoEnergia(chk, orden, sys, i + 1, ev \cup {b})

test_condiciones_iniciales(sys) ==
    BarridoEnergia("test_condiciones_iniciales", VALORES_B, sys, 1, {})

test_energia_disipada(sys) ==
    BarridoEnergia("test_energia_disipada", VALORES_B, sys, 1, {})

test_energia_decrece(sys) ==
    BarridoEnergia("test_energia_decrece", VALORES_B, sys, 1, {})

test_convergencia_temporal(sys) ==
    BarridoEnergia("test_convergencia_temporal", VALORES_B, sys, 1, {})

\* test_formato_archivos: open() without an existence check; at least 3
\* comment lines; the FIRST non-comment line split into exactly 4 fields
RECURSIVE FormatoDesde(_, _, _, _)
FormatoDesde(orden, sys, i, ev) ==
    IF i > Len(orden) THEN R("passed", ev, {}, <<>>)
    ELSE LET b == orden[i]
             a == sys[Nombre(b)]
             lineas_comentario == SelectSeq(a.lineas, LAMBDA l : l.com)
             lineas_datos == SinComentarios(a.lineas)
         IN  IF ~a.existe THEN R("error", ev, {}, <<>>)
             ELSE IF ~(Len(lineas_comentario) >= 3)
                  THEN R("failed", ev \cup {b}, {b}, <<>>)
             ELSE IF Len(lineas_datos) = 0 THEN R("error", ev \cup {b}, {}, <<>>)
             ELSE IF Len(lineas_datos[1].campos) # 4
                  THEN R("failed", ev \cup {b}, {b}, <<>>)
             ELSE FormatoDesde(orden, sys, i + 1, ev \cup {b})

test_formato_archivos(sys) == FormatoDesde(VALORES_B, sys, 1, {})

\* test_rendimiento: for each existing file, 4000 <= number of
\* non-comment lines <= 6000
MIN_PUNTOS == 4000

MAX_PUNTOS == 6000

RECURSIVE RendimientoDesde(_, _, _, _)
RendimientoDesde(orden, sys, i, ev) ==
    IF i > Len(orden) THEN R("passed", ev, {}, <<>>)
    ELSE LET b == orden[i]
             a == sys[Nombre(b)]
             n == Len(SinComentarios(a.lineas))
         IN  IF ~a.existe THEN RendimientoDesde(orden, sys, i + 1, ev)
             ELSE IF ~(MIN_PUNTOS <= n /\ n <= MAX_PUNTOS)
                  THEN R("failed", ev \cup {b}, {b}, <<>>)
             ELSE RendimientoDesde(orden, sys, i + 1, ev \cup {b})

test_rendimiento(sys) == RendimientoDesde(VALORES_B, sys, 1, {})

\* the columns a test_validacion.py sweep reads: estabilidad data[:, 1..3],
\* asintotico data[:, 0..2], regimenes data[:, 0..1]
ColumnasLeidas(chk) ==
    CASE chk = "test_estabilidad_numerica" -> 4
      [] chk = "test_comportamiento_asintotico" -> 3
      [] chk = "test_identificacion_regimenes" -> 2

\* the assertions of one test_validacion.py sweep (regimenes asserts nothing)
AfirmacionesValidacion(chk, d) ==
    CASE chk = "test_estabilidad_numerica" -> EstabilidadNumericaOK(d.x, d.v, d.E)
      [] chk = "test_comportamiento_asintotico" -> ComportamientoAsintoticoOK(d.x, d.v)
      [] chk = "test_identificacion_regimenes" -> TRUE

\* the line a sweep prints for a coefficient that passed
Impreso(chk, d, b) ==
    IF chk = "test_identificacion_regimenes"
    THEN <<b, num_oscilaciones(d.x), regimen(d.x)>>
    ELSE <<b, 0, "ok">>

\* for b in [0.5, 2.0, 3.0]: if not os.path.exists(filename): continue;
\* load; assert ...; print(...)
RECURSIVE BarridoValidacion(_, _, _, _, _, _)
BarridoValidacion(chk, orden, sys, i, ev, out) ==
    IF i > Len(orden) THEN R("passed", ev, {}, out)
    ELSE LET b == orden[i]
             a == sys[Nombre(b)]
             d == CargarLineas(a.lineas, ColumnasLeidas(chk))
         IN  IF ~a.existe THEN BarridoValidacion(chk, orden, sys, i + 1, ev, out)
             ELSE IF d.st = "error" THEN R("error", ev, {}, out)
             ELSE IF ~AfirmacionesValidacion(chk, d)
                  THEN R("failed", ev \cup {b}, {b}, out)
             ELSE BarridoValidacion(chk, orden, sys, i + 1, ev \cup {b},
                                    Append(out, Impreso(chk, d, b)))

test_estabilidad_numerica(sys) ==
    BarridoValidacion("test_estabilidad_numerica", VALORES_B, sys, 1, {}, <<>>)

test_comportamiento_asintotico(sys) ==
    BarridoValidacion("test_comportamiento_asintotico", VALORES_B, sys, 1, {}, <<>>)

test_identificacion_regimenes(sys) ==
    BarridoValidacion("test_identificacion_regimenes", VALORES_B, sys, 1, {}, <<>>)

(***************************************************************************)
(* TestValidacionFisica (no input files)                                   *)
(***************************************************************************)
\* MASA = 0.5 and CONSTANTE_RESORTE = 4.0, in tenths
MASA == 5

CONSTANTE_RESORTE == 40

\* np.isclose(a, b): abs(a - b) <= atol + rtol * abs(b), atol = 1e-8,
\* rtol = 1e-5, for b a whole number of tenths
isclose(a, b) ==
    LET tol == Num(0, 1000 + 100000 * AbsInt(b.c))
    IN  ~Lt(tol, Abs(Sub(a, b)))

\* np.isclose(np.sqrt(p), np.sqrt(q)) for fractions p, q: the two roots are
\* the same number when the radicands are equal, which is the only case the
\* source has
iscloseRaices(p, q) == p[1] * q[2] = q[1] * p[2]

\* omega_teorico = sqrt(k / m) against sqrt(4.0 / 0.5)
test_frecuencia_natural ==
    IF iscloseRaices(<<CONSTANTE_RESORTE, MASA>>, <<40, 5>>)
    THEN R("passed", {}, {}, <<>>)
    ELSE R("failed", {}, {}, <<>>)

\* b_critico = 2 * sqrt(m * k) against 2 * sqrt(0.5 * 4.0), then
\* ratio = 2.0 / b_critico and assert 0.9 < ratio < 1.1, compared on the
\* squares: ratio**2 = 4 / (4 * m * k) = 100 / (MASA * CONSTANTE_RESORTE)
test_amortiguamiento_critico ==
    LET mk == MASA * CONSTANTE_RESORTE
    IN  IF /\ iscloseRaices(<<mk, 100>>, <<5 * 40, 100>>)
           /\ 81 * mk < 100 * 100
           /\ 100 * 100 < 121 * mk
        THEN R("passed", {}, {}, <<>>)
        ELSE R("failed", {}, {}, <<>>)

\* x0, v0 = 1.0, 0.0
\* energia_teorica = 0.5 * MASA * v0*2 + 0.5 * CONSTANTE_RESORTE * x0*2
\* (factors in tenths, the literal 2 as it is; the sum is in thousandths)
test_energia_inicial ==
    LET x0 == 10
        v0 == 0
        energia_teorica ==
            Num((5 * MASA * v0 * 2 + 5 * CONSTANTE_RESORTE * x0 * 2) \div 100, 0)
        energia_esperada == Num(20, 0)
    IN  IF isclose(energia_teorica, energia_esperada)
        THEN R("passed", {}, {}, <<>>)
        ELSE R("failed", {}, {}, <<>>)

(***************************************************************************)
(* TestValidacionNumerica.test_convergencia_integral (b = 0.5 only).       *)
(* scipy's integrate.simpson is not modelled: its value is an input of the *)
(* operation, `simpson`, twice the integral in thousandths like TrapzDoble.*)
(***************************************************************************)
RECURSIVE SumaDesde(_, _)
SumaDesde(y, i) == IF i > Len(y) THEN 0 ELSE y[i] + SumaDesde(y, i + 1)

\* num / den < p[1] / p[2] as numpy floats divide: x / 0 is nan or inf and
\* compares False; a negative denominator flips the quotient's sign
CocienteLt(num, den, p) ==
    IF den = 0 THEN FALSE
    ELSE IF den > 0 THEN num * p[2] < p[1] * den
    ELSE num * p[2] > p[1] * den

test_convergencia_integral(sys, simpson) ==
    LET b == 50
        a == sys[Nombre(b)]
        d == CargarLineas(a.lineas, 3)
        integral_trapz == TrapzDoble(Cuadrado(d.v), d.t, 1)
        integral_rect ==
            2 * SumaDesde(Cuadrado(d.v), 1) * (Tenths(d.t[2]) - Tenths(d.t[1]))
        error_trapz_simpson_ok ==
            CocienteLt(AbsInt(integral_trapz - simpson), integral_trapz, <<1, 100>>)
        error_trapz_rect_ok ==
            CocienteLt(AbsInt(integral_trapz - integral_rect), integral_trapz, <<5, 100>>)
    IN  IF ~a.existe THEN R("skipped", {}, {}, <<>>)
        ELSE IF d.st = "error" THEN R("error", {}, {}, <<>>)
        ELSE IF ~error_trapz_simpson_ok \/ ~error_trapz_rect_ok
             THEN R("failed", {b}, {b}, <<>>)
        ELSE R("passed", {b}, {}, <<<<b, 0, "ok">>>>)

\* the values integrate.simpson may return for the file of b = 0.5: the
\* trapezoid value, and values 2 % below and above it
SimpsonPosibles(sys) ==
    LET d == CargarLineas(sys[Nombre(50)].lineas, 3)
        tz == IF d.st = "ok" THEN TrapzDoble(Cuadrado(d.v), d.t, 1) ELSE 0
    IN  {tz, (tz * 98) \div 100, (tz * 102) \div 100}

(***************************************************************************)
(* test_generar_reporte                                                    *)
(***************************************************************************)
\* test_classes = [TestValidacionFisica, TestValidacionNumerica,
\*                 TestAnalisisResultados]
test_classes ==
    <<"TestValidacionFisica", "TestValidacionNumerica", "TestAnalisisResultados">>

\* dir(instancia): the names the class body defines, sorted (the names every
\* object has, all of the form __x__, are left out)
dir(cls) ==
    CASE cls = "TestValidacionFisica" ->
            <<"CONSTANTE_RESORTE", "MASA", "VALORES_B",
              "test_amortiguamiento_critico", "test_energia_inicial",
              "test_frecuencia_natural">>
      [] cls = "TestValidacionNumerica" ->
            <<"test_convergencia_integral", "test_estabilidad_numerica">>
      [] cls = "TestAnalisisResultados" ->
            <<"test_comportamiento_asintotico", "test_identificacion_regimenes">>

\* s.startswith(p)
startswith(s, p) == Len(s) >= Len(p) /\ SubSeq(s, 1, Len(p)) = p

\* whether the attribute lookup test_class.<nombre> succeeds: the class body
\* defines it, or it is one of the attributes every class has
hasattr(cls, nombre) ==
    \/ \E i \in 1..Len(dir(cls)) : dir(cls)[i] = nombre
    \/ nombre \in {"__name__", "__doc__", "__module__", "__dict__", "__class__"}

\* method(): the outcome of one check method
Metodo(nombre, sys, simpson) ==
    CASE nombre = "test_amortiguamiento_critico" -> test_amortiguamiento_critico
      [] nombre = "test_energia_inicial" -> test_energia_inicial
      [] nombre = "test_frecuencia_natural" -> test_frecuencia_natural
      [] nombre = "test_convergencia_integral" -> test_convergencia_integral(sys, simpson)
      [] nombre = "test_estabilidad_numerica" -> test_estabilidad_numerica(sys)
      [] nombre = "test_comportamiento_asintotico" -> test_comportamiento_asintotico(sys)
      [] nombre = "test_identificacion_regimenes" -> test_identificacion_regimenes(sys)

\* for method_name in dir(instancia): if it starts with 'test_': try:
\* method(); print ok  except Exception as e: print failure.
\* evaluados holds the methods invoked, salida the status lines.  Skipped
\* derives from BaseException, not Exception: the except clause does not
\* catch it and it leaves test_generar_reporte.
RECURSIVE MetodosDesde(_, _, _, _, _, _)
MetodosDesde(cls, sys, simpson, j, ev, out) ==
    IF j > Len(dir(cls)) THEN R("passed", ev, {}, out)
    ELSE LET method_name == dir(cls)[j]
             r == Metodo(method_name, sys, simpson)
         IN  IF ~startswith(method_name, "test_")
             THEN MetodosDesde(cls, sys, simpson, j + 1, ev, out)
             ELSE IF r.st = "skipped"
                  THEN R("skipped", ev \cup {method_name}, {}, out)
             ELSE MetodosDesde(cls, sys, simpson, j + 1, ev \cup {method_name},
                               Append(out, <<method_name, r.st = "passed">>))

\* for test_class in test_classes: print(f"\n{test_class._name_}:") ...
\* The attribute read is _name_ (single underscores); a class without it
\* raises AttributeError, outside the try.
RECURSIVE ClasesDesde(_, _, _, _, _)
ClasesDesde(sys, simpson, i, ev, out) ==
    IF i > Len(test_classes) THEN R("passed", ev, {}, out)
    ELSE IF ~hasattr(test_classes[i], "_name_") THEN R("error", ev, {}, out)
    ELSE LET r == MetodosDesde(test_classes[i], sys, simpson, 1, ev, out)
         IN  IF r.st # "passed" THEN r
             ELSE ClasesDesde(sys, simpson, i + 1, r.evaluados, r.salida)

test_generar_reporte(sys, simpson) == ClasesDesde(sys, simpson, 1, {}, <<>>)

(***************************************************************************)
(* graficas_oscilador.generar_reporte_energia                              *)
(***************************************************************************)
\* ARCHIVOS_ENTRADA = [f"resultados_b{b:.2f}.dat" for b in VALORES_B]
ARCHIVOS_ENTRADA == [i \in 1..Len(VALORES_B) |-> Nombre(VALORES_B[i])]

\* for b, archivo in zip(VALORES_B, ARCHIVOS_ENTRADA): cargar_datos (which
\* may end the process), then print the evaluation of b
RECURSIVE ReporteEnergiaDesde(_, _, _, _)
ReporteEnergiaDesde(sys, i, ev, out) ==
    IF i > Len(VALORES_B) THEN R("passed", ev, {}, out)
    ELSE LET b == VALORES_B[i]
             d == cargar_datos(ARCHIVOS_ENTRADA[i], sys)
         IN  IF d.st = "exit" THEN R("exit", ev, {}, out)
             ELSE ReporteEnergiaDesde(sys, i + 1, ev \cup {b},
                      Append(out, <<b, calcular_energia_disipada(d.t, d.v, b),
                                    evaluacion(d.t, d.v, b)>>))

generar_reporte_energia(sys) == ReporteEnergiaDesde(sys, 1, {}, <<>>)

(***************************************************************************)
(* State.  fs: the data files in the working directory; prueba: the        *)
(* function run last; res: its outcome.                                    *)
(***************************************************************************)
VARIABLES fs, prueba, res

vars == <<fs, prueba, res>>

(***************************************************************************)
(* Input files.  Every data file has a 3-line comment header and rows      *)
(* "t x v E".                                                              *)
(***************************************************************************)
Encabezado == <<Comentario, Comentario, Comentario>>

\* rows from the four columns; t and v are given in whole tenths
Filas(t, x, v, E) ==
    [i \in 1..Len(t) |-> Fila(<<Num(t[i], 0), x[i], Num(v[i], 0), E[i]>>)]

ArchivoDe(t, x, v, E) == Archivo(Encabezado \o Filas(t, x, v, E))

\* a sequence of n copies of a
Rep(n, a) == [i \in 1..n |-> a]

\* the sequence a with its k-th element replaced by e
Poner(a, k, e) == [i \in 1..Len(a) |-> IF i = k THEN e ELSE a[i]]

\* An 8-sample trajectory that passes every sweep check for coefficient b:
\* x(0) = 1, v(0) = 0, E(0) = 2, b * trapz(v**2, t) within 1 % of 2, the
\* energy non-increasing, and x, v, E at rest from the third sample on.
TiempoBase(b) ==
    IF b = 300 THEN <<0, 5, 11, 20, 30, 40, 50, 60>>
    ELSE <<0, 10, 20, 30, 40, 50, 60, 70>>

VelocidadBase(b) ==
    <<0, (CASE b = 50 -> 20 [] b = 200 -> 10 [] b = 300 -> 11)>> \o Rep(6, 0)

PosicionBase == <<Num(10, 0), Num(5, 0)>> \o Rep(6, Cero)

EnergiaBase == <<Num(20, 0), Num(10, 0)>> \o Rep(6, Cero)

Defectos ==
    {"ninguno", "ci", "disipada", "crece", "noconverge", "asintotico", "formato"}

\* the file of coefficient b with one defect:
\*   ci          x(0) = 1 + 1e-10
\*   disipada    a larger velocity peak (the dissipated energy is off)
\*   crece       the energy rises by 1.1e-10 between two samples
\*   noconverge  E = 0.5 at the third of the eight samples
\*   asintotico  x = 0.2 at the fourth of the eight samples
\*   formato     the second data row has 3 fields
Trayectoria(b, defecto) ==
    LET t == TiempoBase(b)
        x == CASE defecto = "ci" -> Poner(PosicionBase, 1, Num(10, 10))
               [] defecto = "asintotico" -> Poner(PosicionBase, 4, Num(2, 0))
               [] OTHER -> PosicionBase
        v == IF defecto = "disipada"
             THEN Poner(VelocidadBase(b), 2, VelocidadBase(b)[2] + 2)
             ELSE VelocidadBase(b)
        E == CASE defecto = "crece" -> Poner(EnergiaBase, 4, Num(0, 11))
               [] defecto = "noconverge" -> Poner(EnergiaBase, 3, Num(5, 0))
               [] OTHER -> EnergiaBase
        filas == Filas(t, x, v, E)
    IN  IF defecto = "formato"
        THEN Archivo(Encabezado
                     \o Poner(filas, 2, Fila(SubSeq(filas[2].campos, 1, 3))))
        ELSE Archivo(Encabezado \o filas)

\* the coefficient a file name belongs to
CoeficienteDe(n) == CHOOSE b \in {VALORES_B[i] : i \in 1..Len(VALORES_B)} : Nombre(b) = n

\* the file systems of the main specification: each of the three files is
\* missing or holds the trajectory of its coefficient with one defect
SistemasDeArchivos ==
    {[n \in NOMBRES |-> IF o[n] = "ausente" THEN Ausente
                        ELSE Trayectoria(CoeficienteDe(n), o[n])] :
        o \in [NOMBRES -> {"ausente"} \cup Defectos]}

Init ==
    /\ fs \in SistemasDeArchivos
    /\ prueba = "ninguna"
    /\ res = SinEjecutar

(***************************************************************************)
(* Actions: one per function run                                           *)
(***************************************************************************)
Ejecutar(nombre, r) ==
    /\ prueba' = nombre
    /\ res' = r
    /\ UNCHANGED fs

pytest_test_archivos_existen ==
    Ejecutar("test_archivos_existen", test_archivos_existen(fs))

pytest_test_condiciones_iniciales ==
    Ejecutar("test_condiciones_iniciales", test_condiciones_iniciales(fs))

pytest_test_energia_disipada ==
    Ejecutar("test_energia_disipada", test_energia_disipada(fs))

pytest_test_energia_decrece ==
    Ejecutar("test_energia_decrece", test_energia_decrece(fs))

pytest_test_convergencia_temporal ==
    Ejecutar("test_convergencia_temporal", test_convergencia_temporal(fs))

pytest_test_formato_archivos ==
    Ejecutar("test_formato_archivos", test_formato_archivos(fs))

pytest_test_rendimiento ==
    Ejecutar("test_rendimiento", test_rendimiento(fs))

pytest_test_frecuencia_natural ==
    Ejecutar("test_frecuencia_natural", test_frecuencia_natural)

pytest_test_amortiguamiento_critico ==
    Ejecutar("test_amortiguamiento_critico", test_amortiguamiento_critico)

pytest_test_energia_inicial ==
    Ejecutar("test_energia_inicial", test_energia_inicial)

pytest_test_convergencia_integral ==
    \E simpson \in SimpsonPosibles(fs) :
        Ejecutar("test_convergencia_integral", test_convergencia_integral(fs, simpson))

pytest_test_estabilidad_numerica ==
    Ejecutar("test_estabilidad_numerica", test_estabilidad_numerica(fs))

pytest_test_comportamiento_asintotico ==
    Ejecutar("test_comportamiento_asintotico", test_comportamiento_asintotico(fs))

pytest_test_identificacion_regimenes ==
    Ejecutar("test_identificacion_regimenes", test_identificacion_regimenes(fs))

pytest_test_generar_reporte ==
    \E simpson \in SimpsonPosibles(fs) :
        Ejecutar("test_generar_reporte", test_generar_reporte(fs, simpson))

llamar_generar_reporte_energia ==
    Ejecutar("generar_reporte_energia", generar_reporte_energia(fs))

\* cargar_datos(nombre_archivo) on one of the input files; salida holds the
\* four arrays returned, evaluados the file name
llamar_cargar_datos ==
    \E n \in NOMBRES :
        LET d == cargar_datos(n, fs)
        IN  Ejecutar("cargar_datos", R(d.st, {n}, {}, <<d.t, d.x, d.v, d.E>>))

Next ==
    \/ pytest_test_archivos_existen
    \/ pytest_test_condiciones_iniciales
    \/ pytest_test_energia_disipada
    \/ pytest_test_energia_decrece
    \/ pytest_test_convergencia_temporal
    \/ pytest_test_formato_archivos
    \/ pytest_test_rendimiento
    \/ pytest_test_frecuencia_natural
    \/ pytest_test_amortiguamiento_critico
    \/ pytest_test_energia_inicial
    \/ pytest_test_convergencia_integral
    \/ pytest_test_estabilidad_numerica
    \/ pytest_test_comportamiento_asintotico
    \/ pytest_test_identificacion_regimenes
    \/ pytest_test_generar_reporte
    \/ llamar_generar_reporte_energia
    \/ llamar_cargar_datos

Spec == Init /\ [][Next]_vars

(***************************************************************************)
(* Specifications over enumerated trajectories.  One file, of coefficient  *)
(* b, is drawn from a bounded family; the other two hold the defect-free   *)
(* trajectory of their coefficient (or are missing, for the regimes).      *)
(***************************************************************************)
Coeficientes == {VALORES_B[i] : i \in 1..Len(VALORES_B)}

ConArchivo(b, a) ==
    [n \in NOMBRES |-> IF n = Nombre(b) THEN a
                       ELSE Trayectoria(CoeficienteDe(n), "ninguno")]

SoloArchivo(b, a) == [n \in NOMBRES |-> IF n = Nombre(b) THEN a ELSE Ausente]

\* 0, 1, 2, ... tenths of a second
Reloj(n) == [i \in 1..n |-> i - 1]

\* the sample times 0, dt[1], dt[1] + dt[2], ...
RECURSIVE Acumulado(_, _)
Acumulado(dt, i) == IF i = 0 THEN 0 ELSE dt[i] + Acumulado(dt, i - 1)

Tiempos(dt) == [i \in 1..(Len(dt) + 1) |-> Acumulado(dt, i - 1)]

\* --- dissipated energy: time steps and velocities (tenths)
MaxV == 3

Pasos == {10, 20}

Velocidades == {0, 1, 2, 6, 8, 10}

InitDisipada ==
    /\ \E b \in Coeficientes, n \in 2..MaxV :
         \E dt \in [1..(n - 1) -> Pasos], v \in [1..n -> Velocidades] :
            fs = ConArchivo(b, ArchivoDe(Tiempos(dt), Rep(n, Cero), v, Rep(n, Cero)))
    /\ prueba = "ninguna"
    /\ res = SinEjecutar

NextDisipada == pytest_test_energia_disipada \/ llamar_generar_reporte_energia

SpecDisipada == InitDisipada /\ [][NextDisipada]_vars

\* --- energy monotonicity: energies 0, 4e-11, 1e-10, 2.1e-10 and 0.2
MaxE == 4

Energias == {Cero, Num(0, 4), Num(0, 10), Num(0, 21), Num(2, 0)}

InitDecrece ==
    /\ \E b \in Coeficientes, n \in 2..MaxE :
         \E E \in [1..n -> Energias] :
            fs = ConArchivo(b, ArchivoDe(Reloj(n), Rep(n, Cero), Rep(n, 0), E))
    /\ prueba = "ninguna"
    /\ res = SinEjecutar

NextDecrece == pytest_test_energia_decrece

SpecDecrece == InitDecrece /\ [][NextDecrece]_vars

\* --- asymptotic decay: one column is 0.2 at the samples of a pattern and 0
\* elsewhere, the other columns are 0
MaxN == 8

InitCuarto ==
    /\ \E b \in Coeficientes, col \in {"x", "v", "E"}, n \in 4..MaxN :
         \E pat \in [1..n -> BOOLEAN] :
            fs = ConArchivo(b, ArchivoDe(
                     Reloj(n),
                     [i \in 1..n |-> IF col = "x" /\ pat[i] THEN Num(2, 0) ELSE Cero],
                     [i \in 1..n |-> IF col = "v" /\ pat[i] THEN 2 ELSE 0],
                     [i \in 1..n |-> IF col = "E" /\ pat[i] THEN Num(2, 0) ELSE Cero]))
    /\ prueba = "ninguna"
    /\ res = SinEjecutar

NextCuarto == pytest_test_convergencia_temporal \/ pytest_test_comportamiento_asintotico

SpecCuarto == InitCuarto /\ [][NextCuarto]_vars

\* --- regimes: positions -0.1, 0 and 1e-11; the coefficient of the file
\* changes with the number of samples
MaxX == 9

Posiciones == {Num(-1, 0), Cero, Num(0, 1)}

InitRegimen ==
    /\ \E n \in 2..MaxX :
         \E x \in [1..n -> Posiciones] :
            fs = SoloArchivo(VALORES_B[(n % 3) + 1], ArchivoDe(Reloj(n), x, Rep(n, 0), Rep(n, Cero)))
    /\ prueba = "ninguna"
    /\ res = SinEjecutar

NextRegimen == pytest_test_identificacion_regimenes

SpecRegimen == InitRegimen /\ [][NextRegimen]_vars

\* --- file format: every line is a comment or has 0, 1, 3, 4 or 5 fields
MaxLineas == 5

Formas == {"#", "0", "1", "3", "4", "5"}

LineaDe(forma) ==
    CASE forma = "#" -> Comentario
      [] forma = "0" -> Fila(<<>>)
      [] forma = "1" -> Fila(Rep(1, Cero))
      [] forma = "3" -> Fila(Rep(3, Cero))
      [] forma = "4" -> Fila(Rep(4, Cero))
      [] forma = "5" -> Fila(Rep(5, Cero))

InitFormato ==
    /\ \E b \in Coeficientes, n \in 0..MaxLineas :
         \E formas \in [1..n -> Formas] :
            fs = ConArchivo(b, Archivo([i \in 1..n |-> LineaDe(formas[i])]))
    /\ prueba = "ninguna"
    /\ res = SinEjecutar

NextFormato == pytest_test_formato_archivos \/ llamar_cargar_datos

SpecFormato == InitFormato /\ [][NextFormato]_vars

(***************************************************************************)
(* Properties of the sweeps over the coefficients (specification Spec)     *)
(***************************************************************************)
BarridosEnergia ==
    {"test_condiciones_iniciales", "test_energia_disipada",
     "test_energia_decrece", "test_convergencia_temporal"}

BarridosValidacion ==
    {"test_estabilidad_numerica", "test_comportamiento_asintotico",
     "test_identificacion_regimenes"}

Presentes == {b \in Coeficientes : fs[Nombre(b)].existe}

\* the file of b holds at least two rows, all of four columns
Cargable(b) == CargarLineas(fs[Nombre(b)].lineas, 4).st = "ok"

\* the trajectory of b violates the assertions of sweep chk
Viola(chk, b) ==
    LET d == CargarLineas(fs[Nombre(b)].lineas, 4)
    IN  IF chk \in BarridosEnergia THEN ~AfirmacionesEnergia(chk, d, b)
        ELSE ~AfirmacionesValidacion(chk, d)

\* C1: after any sweep check, whatever files are missing, the coefficients
\* evaluated are exactly those whose file is present -- a missing file skips
\* its own coefficient only.  (Stated for present files that are loadable and
\* violate nothing, so that only missing files can end the sweep.)
C1_SoloSeSaltanAusentes ==
    (/\ prueba \in BarridosEnergia \cup BarridosValidacion
     /\ \A b \in Presentes : Cargable(b) /\ ~Viola(prueba, b))
    => res.evaluados = Presentes

\* C2: test_archivos_existen fails exactly when one of the three files is
\* missing, never skips, and passes when all three exist.
C2_ArchivosExisten ==
    prueba = "test_archivos_existen" =>
        LET falta == \E n \in {"resultados_b0.50.dat", "resultados_b2.00.dat",
                               "resultados_b3.00.dat"} : ~fs[n].existe
        IN  /\ res.st = "failed" <=> falta
            /\ res.st = "passed" <=> ~falta
            /\ res.st # "skipped"

\* C2 witness: the check has failed on a file system whose first two files
\* exist and whose third is missing
C2_Testigo ==
    /\ prueba = "test_archivos_existen"
    /\ res.st = "failed"
    /\ fs["resultados_b0.50.dat"].existe
    /\ fs["resultados_b2.00.dat"].existe
    /\ ~fs["resultados_b3.00.dat"].existe

\* every method the report can reach
MetodosDelReporte ==
    UNION {{dir(test_classes[i])[j] : j \in 1..Len(dir(test_classes[i]))} :
              i \in 1..Len(test_classes)}

\* C3: after test_generar_reporte every test method of every listed class
\* has been invoked and has exactly one status line, whatever the earlier
\* methods did.
C3_ReporteCompleto ==
    prueba = "test_generar_reporte" =>
        \A m \in {n \in MetodosDelReporte : startswith(n, "test_")} :
            /\ m \in res.evaluados
            /\ Cardinality({i \in 1..Len(res.salida) : res.salida[i][1] = m}) = 1

\* C4: with every file present and loadable, a sweep evaluates all three
\* coefficients and records as failures exactly the coefficients whose
\* trajectory violates the check.
C4_ViolacionNoFatal ==
    (/\ prueba \in BarridosEnergia \cup BarridosValidacion
     /\ \A b \in Coeficientes : fs[Nombre(b)].existe /\ Cargable(b))
    => /\ res.evaluados = Coeficientes
       /\ res.fallos = {b \in Coeficientes : Viola(prueba, b)}

\* the orders in which the three coefficients can be processed
Ordenes ==
    {o \in [1..Len(VALORES_B) -> Coeficientes] :
        \A i, j \in 1..Len(VALORES_B) : i # j => o[i] # o[j]}

\* C5: for files each present or missing, each trajectory valid or
\* violating, the outcome of a sweep (pass, fail or skipped, and the
\* coefficients evaluated) is the one every processing order of the
\* coefficients gives.
C5_OrdenIrrelevante ==
    (prueba \in BarridosEnergia /\ \A b \in Presentes : Cargable(b)) =>
        \A o \in Ordenes :
            LET r == BarridoEnergia(prueba, o, fs, 1, {})
            IN  r.st = res.st /\ r.evaluados = res.evaluados

(***************************************************************************)
(* Dissipated energy (specification SpecDisipada)                          *)
(***************************************************************************)
\* the sum of f over the finite set S
RECURSIVE SumaSobre(_, _)
SumaSobre(S, f) ==
    IF S = {} THEN 0
    ELSE LET e == CHOOSE e \in S : TRUE
         IN  f[e] + SumaSobre(S \ {e}, f)

\* the columns t and v of the file of b, in tenths
TiempoDe(b) == CargarLineas(fs[Nombre(b)].lineas, 4).t

VelocidadDe(b) == CargarLineas(fs[Nombre(b)].lineas, 4).v

\* b times the trapezoid integral of v squared over t,
\*   b * sum over i of (t[i+1] - t[i]) * (v[i]^2 + v[i+1]^2) / 2,
\* in units of 1/200000 J (b in hundredths, t and v in tenths)
EnergiaDisipadaDe(b) ==
    LET t == TiempoDe(b)
        v == VelocidadDe(b)
        I == 1..(Len(t) - 1)
    IN  b * SumaSobre(I, [i \in I |-> (t[i + 1].c - t[i].c)
                                       * (v[i].c * v[i].c + v[i + 1].c * v[i + 1].c)])

\* |b * integral - E0| / E0 < 0.01 with E0 = 2.0 J = 400000 units
DentroDeTolerancia(b) ==
    LET e == EnergiaDisipadaDe(b)
        desvio == IF e < 400000 THEN 400000 - e ELSE e - 400000
    IN  100 * desvio < 400000

\* C6: the dissipated energy is b times the trapezoid integral of v squared
\* over t; test_energia_disipada passes exactly when it is within 1 % of
\* E0 = 2.0 for every coefficient; the report prints that same value for each
\* coefficient and rates it 'Excelente' exactly when the check passes for it.
C6_EnergiaDisipada ==
    /\ prueba = "test_energia_disipada" =>
          (res.st = "passed" <=> \A b \in Coeficientes : DentroDeTolerancia(b))
    /\ prueba = "generar_reporte_energia" =>
          /\ {res.salida[i][1] : i \in 1..Len(res.salida)} = Coeficientes
          /\ \A i \in 1..Len(res.salida) :
                /\ res.salida[i][2] = EnergiaDisipadaDe(res.salida[i][1])
                /\ res.salida[i][3] = "Excelente"
                      <=> DentroDeTolerancia(res.salida[i][1])

\* C6 witness: the report has rated a trajectory whose dissipated energy is
\* exactly 1 % above E0 (2.02 J), and has not rated it 'Excelente'
C6_Testigo ==
    /\ prueba = "generar_reporte_energia"
    /\ \E i \in 1..Len(res.salida) :
          res.salida[i][2] = 404000 /\ res.salida[i][3] = "Muy bueno"

(***************************************************************************)
(* Asymptotic decay (specification SpecCuarto)                             *)
(***************************************************************************)
\* the last quarter, by index count, of n samples (indices from 1)
UltimoCuarto(n) == {i \in 1..n : i > n - (n \div 4)}

ColumnasDe(b) == CargarLineas(fs[Nombre(b)].lineas, 4)

\* C7: the asymptotic-decay checks pass exactly when every sample in the
\* last quarter of the indices has E < 0.05 * E0 = 0.1 (test_convergencia_
\* temporal), |x| < 0.1 and |v| < 0.1 (test_comportamiento_asintotico);
\* samples before the last quarter have no effect.
C7_UltimoCuarto ==
    /\ prueba = "test_convergencia_temporal" =>
          (res.st = "passed" <=>
             \A b \in Coeficientes :
                \A i \in UltimoCuarto(Len(ColumnasDe(b).E)) :
                   Lt(ColumnasDe(b).E[i], Num(1, 0)))
    /\ prueba = "test_comportamiento_asintotico" =>
          (res.st = "passed" <=>
             \A b \in Coeficientes :
                \A i \in UltimoCuarto(Len(ColumnasDe(b).x)) :
                   /\ Lt(Abs(ColumnasDe(b).x[i]), Num(1, 0))
                   /\ Lt(Abs(ColumnasDe(b).v[i]), Num(1, 0)))

(***************************************************************************)
(* Energy monotonicity (specification SpecDecrece)                         *)
(***************************************************************************)
\* E[i+1] - E[i] > 1e-10, for energies c * 0.1 + f * 1e-11 with |f| small:
\* a rise of a whole tenth or more, or the same tenths and a rise of more
\* than 10 fine units
Sube(a, b) == b.c - a.c > 0 \/ (b.c - a.c = 0 /\ b.f - a.f > 10)

\* C8: test_energia_decrece passes exactly when, in every file, no
\* consecutive difference E[i+1] - E[i] exceeds 1e-10; negative and zero
\* differences, and rises up to 1e-10, leave it passing.
C8_EnergiaDecrece ==
    prueba = "test_energia_decrece" =>
        (res.st = "passed" <=>
           \A b \in Coeficientes :
              \A i \in 1..(Len(ColumnasDe(b).E) - 1) :
                 ~Sube(ColumnasDe(b).E[i], ColumnasDe(b).E[i + 1]))

\* C8 witness: the check has passed on a file whose energy rises by exactly
\* 1e-10 between two samples and by less than that between two others
C8_Testigo ==
    /\ prueba = "test_energia_decrece"
    /\ res.st = "passed"
    /\ \E b \in Coeficientes :
          LET E == ColumnasDe(b).E
          IN  /\ \E i \in 1..(Len(E) - 1) : Sub(E[i + 1], E[i]) = Num(0, 10)
              /\ \E i \in 1..(Len(E) - 1) : Sub(E[i + 1], E[i]) = Num(0, 4)

(***************************************************************************)
(* Regime classification (specification SpecRegimen)                       *)
(***************************************************************************)
\* the sign of a position c * 0.1 + f * 1e-11
SignoDe(a) ==
    IF a.c < 0 \/ (a.c = 0 /\ a.f < 0) THEN "-"
    ELSE IF a.c = 0 /\ a.f = 0 THEN "0" ELSE "+"

\* the number of indices i with sign(x[i]) # sign(x[i+1]) in the file of b
CrucesDe(b) ==
    LET x == ColumnasDe(b).x
    IN  Cardinality({i \in 1..(Len(x) - 1) : SignoDe(x[i]) # SignoDe(x[i + 1])})

\* C9: for the position sequence of every present file the classifier
\* prints one line, with oscillation count crossings // 2 and regime
\* 'Subamortiguado' when the count exceeds 3, 'Casi critico' when it is 1, 2
\* or 3, 'Sobreamortiguado/Critico' when it is 0 (8 crossings: the first,
\* 2 crossings: the second, 0 crossings: the third).
C9_Regimen ==
    prueba = "test_identificacion_regimenes" =>
        /\ res.st = "passed"
        /\ Len(res.salida) = Cardinality(Presentes)
        /\ {res.salida[i][1] : i \in 1..Len(res.salida)} = Presentes
        /\ \A i \in 1..Len(res.salida) :
              LET c == CrucesDe(res.salida[i][1])
                  n == res.salida[i][2]
                  reg == res.salida[i][3]
              IN  /\ n = c \div 2
                  /\ reg = "Subamortiguado" <=> n > 3
                  /\ reg = "Casi critico" <=> n \in {1, 2, 3}
                  /\ reg = "Sobreamortiguado/Critico" <=> n = 0
                  /\ c = 8 => reg = "Subamortiguado"
                  /\ c = 2 => reg = "Casi critico"
                  /\ c = 0 => reg = "Sobreamortiguado/Critico"

\* C9 witness: a position sequence with 8 sign changes has been classified
\* 'Subamortiguado'
C9_Testigo ==
    /\ prueba = "test_identificacion_regimenes"
    /\ \E i \in 1..Len(res.salida) :
          /\ CrucesDe(res.salida[i][1]) = 8
          /\ res.salida[i][3] = "Subamortiguado"

(***************************************************************************)
(* File format (specification SpecFormato)                                 *)
(***************************************************************************)
\* the data lines of a file: neither comments nor blank
LineasDeDatos(a) == SelectSeq(a.lineas, LAMBDA l : ~l.com /\ Len(l.campos) > 0)

\* some data line, anywhere, has not exactly 4 fields, or there is no data
\* line at all
Malformado(a) ==
    \/ \E i \in 1..Len(LineasDeDatos(a)) : Len(LineasDeDatos(a)[i].campos) # 4
    \/ Len(LineasDeDatos(a)) = 0

\* C10: format-checking (test_formato_archivos) or loading (cargar_datos) a
\* file fails, and yields no partial result, whenever some data line of it
\* has not exactly 4 fields, wherever the line is, and whenever it has no
\* data line.
C10_FormatoEstricto ==
    /\ (/\ prueba = "test_formato_archivos"
        /\ \E n \in NOMBRES : Malformado(fs[n]))
       => res.st \in {"failed", "error"}
    /\ prueba = "cargar_datos" =>
          \A n \in res.evaluados :
             Malformado(fs[n]) =>
                /\ res.st = "exit"
                /\ \A j \in 1..Len(res.salida) : res.salida[j] = <<>>

(***************************************************************************)
(* Numerical stability (specification SpecEstabilidad).  One column of the *)
(* drawn file runs over finite and non-finite values, the others are 0.    *)
(***************************************************************************)
MaxS == 3

\* positions and velocities: 0, -0.1, nan, inf, -inf
ValoresXV == {Cero, Num(-1, 0), NaN, PInf, NInf}

\* energies: 0, -4e-11, -1e-10, -1.1e-10, -0.1, 0.2, nan, inf, -inf
ValoresE ==
    {Cero, Num(0, -4), Num(0, -10), Num(0, -11), Num(-1, 0), Num(2, 0),
     NaN, PInf, NInf}

\* a data file whose columns x, v and E hold any float np.loadtxt can read
\* ("nan", "inf", "-inf" included); t in whole tenths
ArchivoDeFlotantes(t, x, v, E) ==
    Archivo(Encabezado
            \o [i \in 1..Len(t) |-> Fila(<<Num(t[i], 0), x[i], v[i], E[i]>>)])

InitEstabilidad ==
    /\ \E b \in Coeficientes, col \in {"x", "v", "E"}, n \in 2..MaxS :
         \E a \in [1..n -> IF col = "E" THEN ValoresE ELSE ValoresXV] :
            fs = ConArchivo(b, ArchivoDeFlotantes(
                     Reloj(n),
                     IF col = "x" THEN a ELSE Rep(n, Cero),
                     IF col = "v" THEN a ELSE Rep(n, Cero),
                     IF col = "E" THEN a ELSE Rep(n, Cero)))
    /\ prueba = "ninguna"
    /\ res = SinEjecutar

NextEstabilidad == pytest_test_estabilidad_numerica

SpecEstabilidad == InitEstabilidad /\ [][NextEstabilidad]_vars

\* a is nan, inf or -inf
NoFinito(a) == a.s # "fin"

\* a < -1e-10
BajoElPiso(a) ==
    \/ a.s = "ninf"
    \/ a.s = "fin" /\ (a.c < 0 \/ (a.c = 0 /\ a.f < -10))

\* x or v of the file of b holds a non-finite value
XVNoFinito(b) ==
    \/ \E i \in 1..Len(ColumnasDe(b).x) : NoFinito(ColumnasDe(b).x[i])
    \/ \E i \in 1..Len(ColumnasDe(b).v) : NoFinito(ColumnasDe(b).v[i])

\* C11, as stated: test_estabilidad_numerica fails exactly when, in some
\* file, x or v holds a nan or an infinite value or some energy sample is
\* below -1e-10.
C11_EstabilidadOriginal ==
    prueba = "test_estabilidad_numerica" =>
        (res.st = "failed" <=>
           \E b \in Coeficientes :
              \/ XVNoFinito(b)
              \/ \E i \in 1..Len(ColumnasDe(b).E) : BajoElPiso(ColumnasDe(b).E[i]))

\* C11, amended: test_estabilidad_numerica fails exactly when, in some
\* file, x or v holds a nan or an infinite value, or some energy sample is
\* below -1e-10 or is nan; energies in [-1e-10, 0), and +inf, are tolerated.
C11_Estabilidad ==
    prueba = "test_estabilidad_numerica" =>
        (res.st = "failed" <=>
           \E b \in Coeficientes :
              \/ XVNoFinito(b)
              \/ \E i \in 1..Len(ColumnasDe(b).E) :
                    \/ BajoElPiso(ColumnasDe(b).E[i])
                    \/ ColumnasDe(b).E[i].s = "nan")

\* C11 witness: the check has failed on a file whose x and v are finite and
\* whose energy holds a nan and no sample below -1e-10
C11_Testigo ==
    /\ prueba = "test_estabilidad_numerica"
    /\ res.st = "failed"
    /\ \A b \in Coeficientes :
          /\ ~XVNoFinito(b)
          /\ \A i \in 1..Len(ColumnasDe(b).E) : ~BajoElPiso(ColumnasDe(b).E[i])
    /\ \E b \in Coeficientes :
          \E i \in 1..Len(ColumnasDe(b).E) : ColumnasDe(b).E[i].s = "nan"

(***************************************************************************)
(* Initial energy (specification Spec)                                     *)
(***************************************************************************)
\* C12: for m = 0.5, k = 4.0, x0 = 1.0, v0 = 0.0 the initial energy computed
\* by test_energia_inicial equals the declared constant 2.0 and the check
\* passes.
C12_EnergiaInicial ==
    prueba = "test_energia_inicial" => res.st = "passed"

(***************************************************************************)
(* Quadrature cross-check (specification Spec)                             *)
(***************************************************************************)
\* C13: test_convergencia_integral compares the trapezoid and Simpson
\* integrals for each of the coefficients 0.5, 2.0 and 3.0 whose file is
\* present: when it passes, every present coefficient has been evaluated.
C13_CadaCoeficiente ==
    (/\ prueba = "test_convergencia_integral"
     /\ res.st = "passed"
     /\ \A b \in Presentes : Cargable(b))
    => res.evaluados = Presentes

(***************************************************************************)
(* graficas_oscilador.main (specification SpecMain).  While main runs,     *)
(* prueba = "main", res.st is its position and res.salida what it has      *)
(* produced so far:                                                        *)
(*   "return"    it returned from the existence loop                       *)
(*   "graficas"  the next call is a graficar_* function                    *)
(*   "reporte"   the next call is generar_reporte_energia                  *)
(*   "mensaje"   the next statement prints the completion message          *)
(*   "fin"       it ran to its end                                         *)
(*   "exit"      cargar_datos ended the process with sys.exit(1)           *)
(***************************************************************************)
\* a variant of the existence loop that looks at the first file only
FaltaElPrimero(sys) == ~sys[ARCHIVOS_ENTRADA[1]].existe

\* for archivo in ARCHIVOS_ENTRADA: if not os.path.exists(archivo): return
FaltaAlguno(sys) ==
    \E i \in 1..Len(ARCHIVOS_ENTRADA) : ~sys[ARCHIVOS_ENTRADA[i]].existe

\* the files the four graficar_* functions save, in the order main calls them
GRAFICAS ==
    <<"posicion_vs_tiempo.png", "velocidad_vs_tiempo.png",
      "energia_vs_tiempo.png", "comparativa_regimenes.png">>

\* a graficar_* function: cargar_datos on every input file, then savefig;
\* FALSE when a cargar_datos ends the process before the figure is saved
graficar(sys) ==
    \A i \in 1..Len(ARCHIVOS_ENTRADA) : cargar_datos(ARCHIVOS_ENTRADA[i], sys).st = "ok"

main_verificar ==
    /\ prueba = "ninguna"
    /\ Ejecutar("main", IF FaltaAlguno(fs) THEN R("return", {}, {}, <<>>)
                        ELSE R("graficas", {}, {}, <<>>))

main_graficar ==
    /\ prueba = "main"
    /\ res.st = "graficas"
    /\ LET k == Len(res.salida) + 1
       IN  Ejecutar("main",
               IF graficar(fs)
               THEN R(IF k = Len(GRAFICAS) THEN "reporte" ELSE "graficas",
                      {}, {}, Append(res.salida, GRAFICAS[k]))
               ELSE R("exit", {}, {}, res.salida))

main_reporte ==
    /\ prueba = "main"
    /\ res.st = "reporte"
    /\ LET r == generar_reporte_energia(fs)
       IN  Ejecutar("main",
               IF r.st = "exit" THEN R("exit", r.evaluados, {}, res.salida)
               ELSE R("mensaje", r.evaluados, {},
                      Append(res.salida, "REPORTE DE ENERGIA DISIPADA")))

main_completar ==
    /\ prueba = "main"
    /\ res.st = "mensaje"
    /\ Ejecutar("main", R("fin", res.evaluados, {},
                          Append(res.salida, "PROCESO COMPLETADO EXITOSAMENTE")))

NextMain == main_verificar \/ main_graficar \/ main_reporte \/ main_completar

SpecMain == Init /\ [][NextMain]_vars

TodosPresentes == \A n \in NOMBRES : fs[n].existe

\* every file is present and cargar_datos returns its four columns
TodosCargables == \A n \in NOMBRES : cargar_datos(n, fs).st = "ok"

Prefijo(s, t) == Len(s) <= Len(t) /\ \A i \in 1..Len(s) : s[i] = t[i]

SalidaCompleta ==
    <<"posicion_vs_tiempo.png", "velocidad_vs_tiempo.png",
      "energia_vs_tiempo.png", "comparativa_regimenes.png",
      "REPORTE DE ENERGIA DISIPADA", "PROCESO COMPLETADO EXITOSAMENTE">>

\* C14, as stated: with a file missing main returns having produced
\* nothing; with all three present it is never cut short and produces the
\* four plots, the report and the completion message in that order.
C14_MainOriginal ==
    prueba = "main" =>
        /\ ~TodosPresentes => res.st = "return" /\ res.salida = <<>>
        /\ TodosPresentes =>
              /\ res.st \notin {"return", "exit"}
              /\ Prefijo(res.salida, SalidaCompleta)
              /\ res.st = "fin" <=> res.salida = SalidaCompleta

\* C14, amended: with a file missing main returns having produced nothing;
\* with all three present but one that cargar_datos cannot load, the process
\* exits in the first plot having produced nothing; with all three present
\* and loadable it is never cut short, produces the four plots, the report
\* and the completion message in that order, and is at its end exactly when
\* all of them are produced.
C14_Main ==
    prueba = "main" =>
        /\ ~TodosPresentes => res.st = "return" /\ res.salida = <<>>
        /\ (TodosPresentes /\ ~TodosCargables) =>
              res.st \in {"graficas", "exit"} /\ res.salida = <<>>
        /\ TodosCargables =>
              /\ res.st \notin {"return", "exit"}
              /\ Prefijo(res.salida, SalidaCompleta)
              /\ res.st = "fin" <=> res.salida = SalidaCompleta

\* C14 witness: main has run to its end on three loadable files and has
\* produced the whole output
C14_Testigo ==
    /\ prueba = "main"
    /\ TodosCargables
    /\ res.st = "fin"
    /\ res.salida = SalidaCompleta
====
